---- MODULE Spec2Model ----
(***************************************************************************)
(* The tree-gen Conan recipe (conanfile.py, class TreeGenConan) as a state *)
(* machine.  The state is the recipe object (settings, options, folders,   *)
(* cpp_info), the files of the source, build and package directories, and  *)
(* the history of the lifecycle methods and of the collaborator calls      *)
(* (CMakeToolchain, CMake, copy) made so far.                              *)
(*                                                                         *)
(* Two specifications:                                                     *)
(*   Spec       the methods are called in the lifecycle order, one pass    *)
(*              per evaluation, the pass ending at the first exception;    *)
(*              a new evaluation may then start with other settings.       *)
(*   SpecCalls  the methods of one recipe object are called by an          *)
(*              arbitrary caller, in any order, also after an exception.   *)
(***************************************************************************)
EXTENDS Naturals, Sequences, FiniteSets

VARIABLES profile, settings, options, folders, files, cpp_info,
          phases, calls, raised, pc, prev, evals

vars == <<profile, settings, options, folders, files, cpp_info,
          phases, calls, raised, pc, prev, evals>>

\* the recipe object and what it wrote
recipe == <<settings, options, folders, files, cpp_info, phases, calls, raised>>

\* the caller's own state
driver == <<profile, pc, prev, evals>>

----------------------------------------------------------------------------
\* Bounds of the model

\* method calls made on one recipe object under SpecCalls
MaxCalls == 3

\* evaluations made one after the other under Spec
MaxEvals == 2

----------------------------------------------------------------------------
\* Values

\* a setting the profile does not define
None == "None"

\* settings.os: Windows, another known system, a value settings.yml does
\* not know, or no value at all
OsValues == {"Windows", "Linux", "Plan9", None}

CompilerValues == {[name |-> "gcc", version |-> "12"],
                   [name |-> "msvc", version |-> "193"]}

BuildTypeValues == {"Release", "Debug"}

ArchValues == {"x86_64"}

\* settings = "os", "compiler", "build_type", "arch"
SettingsValues == [os : OsValues, compiler : CompilerValues,
                   build_type : BuildTypeValues, arch : ArchValues]

\* options = {"shared": [True, False], "fPIC": [True, False]}
OptionValues == [{"shared", "fPIC"} -> BOOLEAN]

\* default_options = {"shared": False, "fPIC": True}
default_options == [o \in {"shared", "fPIC"} |-> (o = "fPIC")]

\* exports_sources "cmake/*": the build module is among the recipe's sources
ExportedSources == {<<"cmake", "tree-gen-utility.cmake">>}

\* the package folder the Conan client hands to package()
package_folder == <<"package">>

\* conans.model.layout.Folders(): every folder is the base folder until
\* layout() is run
DefaultFolders == [source |-> <<>>, build |-> <<>>, generators |-> <<>>]

\* cpp_info before package_info()
EmptyCppInfo == [libs |-> <<>>, cmake_build_modules |-> <<>>]

\* os.path.join
join(a, b) == a \o b

Lifecycle == <<"config_options", "layout", "generate", "build", "package",
               "package_info">>

----------------------------------------------------------------------------
\* One lifecycle method's entry in the history of the evaluation.  The
\* recipe declares no exception of its own: what a method raises comes from
\* the collaborator that failed, and is named here by its kind: IoError
\* (a file could not be written), BuildFailure (cmake.configure() or
\* cmake.build() failed), PackagingError (cmake.install() failed),
\* ConanException (an option that does not exist was deleted).
Phase(name, exc) == [name |-> name, ok |-> (exc = "none")]

\* One call of a collaborator (CMakeToolchain, CMake, copy)
Call(name, ok) == [call |-> name, ok |-> ok]

Init ==
    /\ profile \in [settings : SettingsValues, options : OptionValues]
    /\ settings = profile.settings
    /\ options = profile.options
    /\ folders = DefaultFolders
    /\ files = ExportedSources
    /\ cpp_info = EmptyCppInfo
    /\ phases = <<>>
    /\ calls = <<>>
    /\ raised = "none"
    /\ pc = 1
    /\ prev = {}
    /\ evals = 1

----------------------------------------------------------------------------
\* config_options

\* mutants of the comparison: a lower-case literal, and a test for "not Linux"
IsWindows_lowercase(s) == s.os = "windows"

IsWindows_notLinux(s) == s.os # "Linux"

\* self.settings.os == "Windows": false for every other value, a missing or
\* unknown one included
IsWindows(s) == s.os = "Windows"

\* mutant: a deletion that tolerates a missing option (rm_safe)
del_option_safe(o, name) ==
    [options |-> [n \in DOMAIN o \ {name} |-> o[n]], raised |-> "none"]

\* del self.options.<name>: the option is removed; deleting an option the
\* mapping does not hold raises ConanException and leaves the mapping alone
del_option(o, name) ==
    IF name \in DOMAIN o
    THEN [options |-> [n \in DOMAIN o \ {name} |-> o[n]], raised |-> "none"]
    ELSE [options |-> o, raised |-> "ConanException"]

\* the body of config_options as a function of (settings, options)
config_options_result(s, o) ==
    IF IsWindows(s) THEN del_option(o, "fPIC")
    ELSE [options |-> o, raised |-> "none"]

config_options ==
    LET r == config_options_result(settings, options) IN
    /\ options' = r.options
    /\ raised' = r.raised
    /\ phases' = Append(phases, Phase("config_options", r.raised))
    /\ UNCHANGED <<settings, folders, files, cpp_info, calls>>

----------------------------------------------------------------------------
\* layout

\* mutant: a layout() that also resolves the options
layout_resolving_options ==
    /\ folders' = [source |-> <<>>, build |-> <<"build", settings.build_type>>,
                   generators |-> <<"build", settings.build_type, "generators">>]
    /\ options' = [n \in DOMAIN options \ {"fPIC"} |-> options[n]]
    /\ raised' = "none"
    /\ phases' = Append(phases, [name |-> "layout", ok |-> TRUE])
    /\ UNCHANGED <<settings, files, cpp_info, calls>>

\* mutant: one build folder whatever the build type
cmake_layout_flat(s) ==
    [source |-> <<>>, build |-> <<"build">>,
     generators |-> <<"build", "generators">>]

\* cmake_layout(self): the build folder is build/<build_type> for a
\* single-configuration generator and build for a multi-configuration one
\* (compiler msvc / Visual Studio); nothing else of the settings or options
\* enters the folders
cmake_layout(s) ==
    LET multi == s.compiler.name \in {"Visual Studio", "msvc"}
        build == IF multi THEN <<"build">> ELSE <<"build", s.build_type>>
    IN  [source |-> <<>>, build |-> build,
         generators |-> join(build, <<"generators">>)]

layout ==
    /\ folders' = cmake_layout(settings)
    /\ raised' = "none"
    /\ phases' = Append(phases, Phase("layout", "none"))
    /\ UNCHANGED <<settings, options, files, cpp_info, calls>>

----------------------------------------------------------------------------
\* generate

toolchain_file == join(folders.generators, <<"conan_toolchain.cmake">>)

\* tc.generate() writes the toolchain file into the generators folder, or
\* fails when the folder cannot be written
generate ==
    \E ok \in BOOLEAN :
        LET exc == IF ok THEN "none" ELSE "IoError" IN
        /\ files' = IF ok THEN files \cup {toolchain_file} ELSE files
        /\ calls' = Append(calls, Call("tc.generate", ok))
        /\ raised' = exc
        /\ phases' = Append(phases, Phase("generate", exc))
        /\ UNCHANGED <<settings, options, folders, cpp_info>>

----------------------------------------------------------------------------
\* build

\* what the underlying build leaves in the build folder
cmake_cache == join(folders.build, <<"CMakeCache.txt">>)
built_library == join(folders.build, <<"tree-lib">>)

\* mutant: build() is called whatever configure() did
build_calls_unguarded(configured, built) ==
    <<[call |-> "cmake.configure", ok |-> configured],
      [call |-> "cmake.build", ok |-> built]>>

\* cmake.configure() then cmake.build(): an exception of configure() leaves
\* build() uncalled
build_calls(configured, built) ==
    IF configured
    THEN <<Call("cmake.configure", TRUE), Call("cmake.build", built)>>
    ELSE <<Call("cmake.configure", FALSE)>>

\* a build that succeeds may still produce no library (a misconfigured
\* target): produced says whether it did
build ==
    \E configured, built, produced \in BOOLEAN :
        LET cs == build_calls(configured, built)
            all_ok == \A i \in 1..Len(cs) : cs[i].ok
            exc == IF all_ok THEN "none" ELSE "BuildFailure"
            ran_build == \E i \in 1..Len(cs) :
                             cs[i].call = "cmake.build" /\ cs[i].ok
        IN
        /\ calls' = calls \o cs
        /\ files' = files
                    \cup (IF cs[1].ok THEN {cmake_cache} ELSE {})
                    \cup (IF ran_build /\ produced THEN {built_library} ELSE {})
        /\ raised' = exc
        /\ phases' = Append(phases, Phase("build", exc))
        /\ UNCHANGED <<settings, options, folders, cpp_info>>

----------------------------------------------------------------------------
\* package

\* self.copy(pattern, src, dst): every file of src matching the pattern is
\* copied to dst; a pattern matching nothing copies nothing and raises
\* nothing
copy(fs, pattern, src, dst) ==
    {join(dst, <<pattern>>) : f \in {g \in fs : g = join(src, <<pattern>>)}}

\* mutant: the module is copied to the package root, not to its cmake folder
copied_module_flat ==
    copy(files, "tree-gen-utility.cmake",
         join(folders.source, <<"cmake">>), package_folder)

\* where package() puts the build module (the arguments of self.copy)
copied_module ==
    copy(files, "tree-gen-utility.cmake",
         join(folders.source, <<"cmake">>), join(package_folder, <<"cmake">>))

\* cmake.install(): the install rules put the built library under lib/ of
\* the package folder; the step fails when the library was not built
installed_library == join(package_folder, <<"lib", "tree-lib">>)

\* mutant: install() is called whatever the copy did
package_calls_unguarded(copied, installed) ==
    <<[call |-> "copy", ok |-> copied],
      [call |-> "cmake.install", ok |-> installed]>>

\* self.copy(...) then cmake.install(): an exception of the copy leaves
\* install() uncalled
package_calls(copied, installed) ==
    IF copied
    THEN <<Call("copy", TRUE), Call("cmake.install", installed)>>
    ELSE <<Call("copy", FALSE)>>

package ==
    \E copied, installed \in BOOLEAN :
        LET cs == package_calls(copied, installed)
            ran_install == \E i \in 1..Len(cs) :
                               cs[i].call = "cmake.install" /\ cs[i].ok
            exc == IF ~cs[1].ok THEN "IoError"
                   ELSE IF \A i \in 1..Len(cs) : cs[i].ok THEN "none"
                   ELSE "PackagingError"
        IN
        /\ installed => built_library \in files
        /\ calls' = calls \o cs
        /\ files' = files
                    \cup (IF cs[1].ok THEN copied_module ELSE {})
                    \cup (IF ran_install THEN {installed_library} ELSE {})
        /\ raised' = exc
        /\ phases' = Append(phases, Phase("package", exc))
        /\ UNCHANGED <<settings, options, folders, cpp_info>>

----------------------------------------------------------------------------
\* package_info

\* mutant: the package's name given as its library
package_info_result_named ==
    [libs |-> <<"tree-gen">>,
     cmake_build_modules |-> <<<<"cmake", "tree-gen-utility.cmake">>>>]

package_info_result ==
    [libs |-> <<"tree-lib">>,
     cmake_build_modules |-> <<join(<<"cmake">>, <<"tree-gen-utility.cmake">>)>>]

package_info ==
    /\ cpp_info' = package_info_result
    /\ raised' = "none"
    /\ phases' = Append(phases, Phase("package_info", "none"))
    /\ UNCHANGED <<settings, options, folders, files, calls>>

----------------------------------------------------------------------------
\* What each method reads and what it produces

\* mutant: a config_options() that branches on the build folder
reads_layout_early(name) ==
    IF name = "config_options" THEN {"settings", "options", "folders"}
    ELSE IF name = "layout" THEN {"settings"}
    ELSE IF name = "generate" THEN {"settings", "options", "folders"}
    ELSE IF name = "build" THEN {"folders", "toolchain"}
    ELSE IF name = "package" THEN {"folders", "sources", "build outputs"}
    ELSE {}

\* the values a method's body reads
reads(name) ==
    IF name = "config_options" THEN {"settings", "options"}
    ELSE IF name = "layout" THEN {"settings"}
    ELSE IF name = "generate" THEN {"settings", "options", "folders"}
    ELSE IF name = "build" THEN {"folders", "toolchain"}
    ELSE IF name = "package" THEN {"folders", "sources", "build outputs"}
    ELSE {}

\* the values a method's body produces
writes(name) ==
    IF name = "config_options" THEN {"options"}
    ELSE IF name = "layout" THEN {"folders"}
    ELSE IF name = "generate" THEN {"toolchain"}
    ELSE IF name = "build" THEN {"build outputs"}
    ELSE IF name = "package" THEN {"package contents"}
    ELSE {"cpp_info"}

----------------------------------------------------------------------------
\* The caller: one evaluation is one pass over the lifecycle

\* the method at position pc is name, and no method has raised
Turn(name) ==
    /\ pc <= Len(Lifecycle)
    /\ Lifecycle[pc] = name
    /\ raised = "none"

\* the position after a method has run: the next method, or the same place
\* for good when the method raised
next_pc == IF raised' = "none" THEN pc + 1 ELSE pc

Advance ==
    /\ pc' = next_pc
    /\ UNCHANGED <<profile, prev, evals>>

\* the evaluation is over: every method has run, or one has raised
Ended == pc > Len(Lifecycle) \/ raised # "none"

\* what an evaluation that ran layout() leaves behind for the next one:
\* the combination it was run for and the build folder it wrote into
Left ==
    IF \E i \in 1..Len(phases) : phases[i].name = "layout"
    THEN {[settings |-> settings, options |-> options, build |-> folders.build]}
    ELSE prev

\* a new evaluation: a fresh recipe object for another profile
Restart ==
    /\ Ended
    /\ evals < MaxEvals
    /\ evals' = evals + 1
    /\ prev' = Left
    /\ profile' \in [settings : SettingsValues, options : OptionValues]
    /\ settings' = profile'.settings
    /\ options' = profile'.options
    /\ folders' = DefaultFolders
    /\ files' = ExportedSources
    /\ cpp_info' = EmptyCppInfo
    /\ phases' = <<>>
    /\ calls' = <<>>
    /\ raised' = "none"
    /\ pc' = 1

Next ==
    \/ Turn("config_options") /\ config_options /\ Advance
    \/ Turn("layout") /\ layout /\ Advance
    \/ Turn("generate") /\ generate /\ Advance
    \/ Turn("build") /\ build /\ Advance
    \/ Turn("package") /\ package /\ Advance
    \/ Turn("package_info") /\ package_info /\ Advance
    \/ Restart

Spec == Init /\ [][Next]_vars

\* any caller: every method may be called at any time
CanCall == Len(phases) < MaxCalls

\* a call by such a caller leaves the caller's own state alone
Called ==
    /\ CanCall
    /\ UNCHANGED driver

NextCalls ==
    \/ Called /\ config_options
    \/ Called /\ layout
    \/ Called /\ generate
    \/ Called /\ build
    \/ Called /\ package
    \/ Called /\ package_info

SpecCalls == Init /\ [][NextCalls]_vars

----------------------------------------------------------------------------
\* Properties

Ran(name) == \E i \in 1..Len(phases) : phases[i].name = name

Succeeded(name) == \E i \in 1..Len(phases) : phases[i] = Phase(name, "none")

Failed(name) ==
    \E i \in 1..Len(phases) : phases[i].name = name /\ ~phases[i].ok

\* the last method called, "" before the first call
Last == IF phases = <<>> THEN "" ELSE phases[Len(phases)].name

\* this step is a call of the method name
Calls(name) ==
    /\ Len(phases') = Len(phases) + 1
    /\ phases'[Len(phases')].name = name

\* config_options() was the first call made on the recipe object, and
\* nothing has been called since
ResolvedOnce == Len(phases) = 1 /\ Last = "config_options"

\* C1: config_options() on the default options {shared: False, fPIC: True}
\* keeps fPIC whenever settings.os is not Windows, and for Windows leaves
\* exactly {shared: False} without raising.
C1_ResolvedOptions ==
    (ResolvedOnce /\ profile.options = default_options) =>
        /\ settings.os # "Windows" => "fPIC" \in DOMAIN options
        /\ settings.os = "Windows" =>
               /\ options = [n \in {"shared"} |-> FALSE]
               /\ raised = "none"

C1_Witness ==
    /\ ResolvedOnce
    /\ profile.options = default_options
    /\ settings.os = "Windows"
    /\ options = [n \in {"shared"} |-> FALSE]

\* a second config_options() directly after a first that succeeded
SecondRun ==
    /\ phases # <<>>
    /\ phases[Len(phases)] = Phase("config_options", "none")
    /\ Calls("config_options")

UnresolvedOs == settings.os \in {None, "Plan9"}

\* C3 as claimed: with settings.os missing or unknown, config_options()
\* fails with UnresolvedSettingError and resolves nothing.
C3_Unresolved ==
    (ResolvedOnce /\ UnresolvedOs) =>
        /\ raised = "UnresolvedSettingError"
        /\ ~phases[1].ok

\* C3 amended: with settings.os missing or unknown, config_options() raises
\* nothing and keeps every option it was given, fPIC included, as for any
\* system other than Windows.
C3_KeepsOptions ==
    (ResolvedOnce /\ UnresolvedOs) =>
        /\ raised = "none"
        /\ phases[1].ok
        /\ options = profile.options

C3_Witness ==
    /\ ResolvedOnce
    /\ settings.os = None
    /\ raised = "none"
    /\ options = default_options

C5_FailFast ==
    /\ \A i \in 1..Len(phases) : ~phases[i].ok => i = Len(phases)
    /\ \A i \in 1..Len(calls) : ~calls[i].ok => i = Len(calls)
    /\ raised # "none" => (phases # <<>> /\ ~phases[Len(phases)].ok)
    /\ Failed("package") => (~Ran("package_info") /\ cpp_info = EmptyCppInfo)

C5_Witness ==
    /\ Failed("package")
    /\ raised = "PackagingError"
    /\ calls[Len(calls)] = Call("cmake.install", FALSE)
    /\ ~ENABLED (Turn("package_info") /\ package_info /\ Advance)

\* the files under the package folder that package_info() declares
Declared ==
    {join(package_folder, <<"lib", package_info_result.libs[i]>>) :
         i \in 1..Len(package_info_result.libs)}
    \cup
    {join(package_folder, package_info_result.cmake_build_modules[i]) :
         i \in 1..Len(package_info_result.cmake_build_modules)}

\* C6: once package() has succeeded, the library and the build module that
\* package_info() declares are files of the package folder.
C6_DeclaredProduced == Succeeded("package") => Declared \subseteq files

C6_Witness ==
    /\ Succeeded("package")
    /\ Last = "package_info"
    /\ cpp_info = package_info_result
    /\ Declared \subseteq files

\* the previous evaluation was run for another combination
OtherCombination(p) == <<p.settings, p.options>> # <<settings, options>>

MultiConfig(s) == s.compiler.name = "msvc"

LinuxGcc12Release ==
    /\ settings = [os |-> "Linux", compiler |-> [name |-> "gcc", version |-> "12"],
                   build_type |-> "Release", arch |-> "x86_64"]
    /\ profile.options = default_options

\* every collaborator call so far succeeded, and the build produced the
\* library
CollaboratorsSucceed ==
    /\ \A i \in 1..Len(calls) : calls[i].ok
    /\ Ran("build") => built_library \in files

\* C8: for Linux, gcc 12, Release, x86_64 with the default options and
\* collaborators that succeed, no method raises, the options stay
\* {shared: False, fPIC: True}, the next method can always run, and the
\* evaluation ends with every method run and cpp_info.libs = ["tree-lib"].
C8_EndToEnd ==
    (LinuxGcc12Release /\ CollaboratorsSucceed) =>
        /\ raised = "none"
        /\ options = default_options
        /\ \A i \in 1..Len(phases) : phases[i] = Phase(Lifecycle[i], "none")
        /\ pc = Len(phases) + 1
        /\ pc > Len(Lifecycle) =>
               /\ Len(phases) = Len(Lifecycle)
               /\ cpp_info.libs = <<"tree-lib">>

C8_Witness ==
    /\ LinuxGcc12Release
    /\ CollaboratorsSucceed
    /\ pc > Len(Lifecycle)
    /\ options = [n \in {"shared", "fPIC"} |-> (n = "fPIC")]
    /\ cpp_info.libs = <<"tree-lib">>

\* C9: the methods of an evaluation run in the order config_options,
\* layout, generate, build, package, package_info, each after the one
\* before it has returned, and no method reads a value that a later method
\* of the lifecycle produces.
C9_PhaseOrder ==
    /\ Len(phases) <= Len(Lifecycle)
    /\ \A i \in 1..Len(phases) :
           /\ phases[i].name = Lifecycle[i]
           /\ i < Len(phases) => phases[i].ok
           /\ \A j \in (i + 1)..Len(Lifecycle) :
                  reads(phases[i].name) \cap writes(Lifecycle[j]) = {}

C9_Witness ==
    /\ Len(phases) = Len(Lifecycle)
    /\ \A i \in 1..Len(phases) : phases[i] = Phase(Lifecycle[i], "none")
    /\ toolchain_file \in files
    /\ installed_library \in files

\* C10: no method changes the settings, and only config_options() changes
\* the options; layout, generate, build, package and package_info leave
\* both alone, whether they succeed or fail.
C10_Frame ==
    [][/\ settings' = settings
       /\ options' # options => Calls("config_options")]_vars

C10_Witness ==
    /\ Len(phases) = 3
    /\ phases[1] = Phase("config_options", "none")
    /\ phases[2] = Phase("build", "BuildFailure")
    /\ phases[3] = Phase("package", "PackagingError")
    /\ settings = profile.settings
    /\ settings.os = "Windows"
    /\ DOMAIN options = {"shared"}

====
